---- MODULE Spec2Model ----
(***************************************************************************)
(* Model of minesweeper.py: the Minesweeper board (mine placement and      *)
(* nearby_mines), the Sentence constraint and the MinesweeperAI knowledge  *)
(* engine (mark_mine, mark_safe, add_knowledge, make_safe_move,            *)
(* make_random_move).                                                      *)
(*                                                                         *)
(* A cell is a pair <<i, j>>, a Sentence is a record [cells, count], the   *)
(* knowledge list is a sequence of Sentences.  Every method of the engine  *)
(* is an operator from an engine record                                    *)
(*   [moves_made, mines, safes, knowledge, trace]                          *)
(* to the engine record the method leaves behind; trace is a history       *)
(* field: the engine state at the start of the running call followed by    *)
(* the engine state after each assignment group of the call.  A second     *)
(* specification runs add_knowledge one loop iteration at a time.          *)
(***************************************************************************)
EXTENDS Integers, Sequences, FiniteSets, TLC

\* Board of the model: Height rows, Width columns, at most MaxMines mines.
Height == 2
Width == 3
MaxMines == 3
\* Number of add_knowledge calls of a behaviour fed by the board.
MaxCalls == 4
\* Number of calls of a behaviour whose caller ignores the board.
MaxApiCalls == 2
\* Largest count a caller that ignores the board passes to add_knowledge.
MaxCount == 2

VARIABLES board, moves_made, mines, safes, knowledge, trace, calls, op, arg, ret,
          frame

vars == <<board, moves_made, mines, safes, knowledge, trace, calls, op, arg, ret,
          frame>>

\* The value make_safe_move / make_random_move return when there is no move.
None == <<>>

Max(a, b) == IF a >= b THEN a ELSE b
Min(a, b) == IF a <= b THEN a ELSE b

\* for i in range(height): for j in range(width): cell = (i, j)
Cells == {<<i, j>> : i \in 0..(Height - 1), j \in 0..(Width - 1)}

\* Mutant: the loops nested the other way round (columns outside).
RowMajor_ColumnFirst(k) == <<(k - 1) % Height, (k - 1) \div Height>>

\* The k-th cell (k = 1, 2, ...) the nested range loops visit.
RowMajor(k) == <<(k - 1) \div Width, (k - 1) % Width>>

\* Position of a cell in the nested range loops.
Rank(cell) == cell[1] * Width + cell[2] + 1

\* Iteration over a set of cells visits them one by one; First picks the
\* next one visited (each marking below acts on one cell only, so the state
\* after the whole loop does not depend on the order).
First(S) == CHOOSE c \in S : \A d \in S : Rank(c) <= Rank(d)

(***************************************************************************)
(* Minesweeper (the board)                                                 *)
(***************************************************************************)
is_mine(cell) == cell \in board

nearby_mines(cell) ==
    Cardinality({n \in {<<i, j>> : i \in (cell[1] - 1)..(cell[1] + 1),
                                   j \in (cell[2] - 1)..(cell[2] + 1)} :
                    /\ n # cell
                    /\ 0 <= n[1] /\ n[1] < Height /\ 0 <= n[2] /\ n[2] < Width
                    /\ n \in board})

(***************************************************************************)
(* Sentence                                                                *)
(***************************************************************************)
Sentence(cells, count) == [cells |-> cells, count |-> count]

known_mines(s) == IF s.count = Cardinality(s.cells) THEN s.cells ELSE {}

known_safes(s) == IF s.count = 0 THEN s.cells ELSE {}

\* Mutant: the cell is removed but the count is left as it was.
Sentence_mark_mine_KeepCount(s, cell) ==
    IF cell \in s.cells
    THEN [cells |-> s.cells \ {cell}, count |-> s.count]
    ELSE s

\* Mutant: the count is decremented whether or not the sentence held the cell.
Sentence_mark_mine_AlwaysDecrement(s, cell) ==
    [cells |-> s.cells \ {cell}, count |-> s.count - 1]

Sentence_mark_mine(s, cell) ==
    IF cell \in s.cells
    THEN [cells |-> s.cells \ {cell}, count |-> s.count - 1]
    ELSE s

\* Mutant: the count is decremented as Sentence.mark_mine does.
Sentence_mark_safe_Decrements(s, cell) ==
    IF cell \in s.cells
    THEN [cells |-> s.cells \ {cell}, count |-> s.count - 1]
    ELSE s

Sentence_mark_safe(s, cell) ==
    IF cell \in s.cells
    THEN [cells |-> s.cells \ {cell}, count |-> s.count]
    ELSE s

\* sentence in list: list membership by Sentence.__eq__ (cells and count).
InList(s, list) == \E k \in DOMAIN list : list[k].cells = s.cells /\ list[k].count = s.count

(***************************************************************************)
(* MinesweeperAI                                                           *)
(***************************************************************************)
Snapshot(st) == [moves_made |-> st.moves_made, mines |-> st.mines,
                 safes |-> st.safes, knowledge |-> st.knowledge]

\* Record the engine state reached.
Logged(st) == [st EXCEPT !.trace = Append(@, Snapshot(st))]

\* MinesweeperAI.__init__
NewAI == [moves_made |-> {}, mines |-> {}, safes |-> {}, knowledge |-> <<>>,
          trace |-> <<>>]

mark_mine(st, cell) ==
    Logged([st EXCEPT !.mines = @ \cup {cell},
                      !.knowledge = [k \in DOMAIN @ |-> Sentence_mark_mine(@[k], cell)]])

\* Mutant: marking a cell safe also withdraws it from mines.
mark_safe_Unmine(st, cell) ==
    Logged([st EXCEPT !.safes = @ \cup {cell},
                      !.mines = @ \ {cell},
                      !.knowledge = [k \in DOMAIN @ |-> Sentence_mark_safe(@[k], cell)]])

mark_safe(st, cell) ==
    Logged([st EXCEPT !.safes = @ \cup {cell},
                      !.knowledge = [k \in DOMAIN @ |-> Sentence_mark_safe(@[k], cell)]])

\* for mine in known_mines.copy(): self.mark_mine(mine)
RECURSIVE MarkMines(_, _)
MarkMines(st, S) ==
    IF S = {} THEN st
    ELSE MarkMines(mark_mine(st, First(S)), S \ {First(S)})

\* for safe in known_safes.copy(): self.mark_safe(safe)
RECURSIVE MarkSafes(_, _)
MarkSafes(st, S) ==
    IF S = {} THEN st
    ELSE MarkSafes(mark_safe(st, First(S)), S \ {First(S)})

\* Mutant: neighbours known to be mines are left out too, the count is kept.
Neighbors_SkipMines(st, cell) ==
    {n \in {<<x, y>> : x \in Max(0, cell[1] - 1)..(Min(Height, cell[1] + 2) - 1),
                       y \in Max(0, cell[2] - 1)..(Min(Width, cell[2] + 2) - 1)} :
        n # cell /\ n \notin st.safes /\ n \notin st.mines}

\* Mutant: neighbours known to be safe are not left out.
Neighbors_KeepSafes(st, cell) ==
    {n \in {<<x, y>> : x \in Max(0, cell[1] - 1)..(Min(Height, cell[1] + 2) - 1),
                       y \in Max(0, cell[2] - 1)..(Min(Width, cell[2] + 2) - 1)} :
        n # cell}

\* The neighbours add_knowledge puts in the new sentence.
Neighbors(st, cell) ==
    {n \in {<<x, y>> : x \in Max(0, cell[1] - 1)..(Min(Height, cell[1] + 2) - 1),
                       y \in Max(0, cell[2] - 1)..(Min(Width, cell[2] + 2) - 1)} :
        n # cell /\ n \notin st.safes}

\* Mutant: the cell is added to safes but not taken out of the sentences.
Observe_NoPropagate(st, cell, count) ==
    LET st1 == [st EXCEPT !.moves_made = @ \cup {cell}]
        st2 == Logged([st1 EXCEPT !.safes = @ \cup {cell}])
    IN  Logged([st2 EXCEPT !.knowledge = Append(@, Sentence(Neighbors(st2, cell), count))])

\* Steps 1-3 of add_knowledge: the move, the safe cell, the new sentence.
Observe(st, cell, count) ==
    LET st1 == [st EXCEPT !.moves_made = @ \cup {cell}]
        st2 == mark_safe(st1, cell)
    IN  Logged([st2 EXCEPT !.knowledge = Append(@, Sentence(Neighbors(st2, cell), count))])

\* Mutant: only the sentence just appended is examined.
DirectPass_NewOnly(st, k) ==
    LET sentence == st.knowledge[Len(st.knowledge)]
        km == known_mines(sentence)
        ks == known_safes(sentence)
        st1 == IF km # {} THEN MarkMines(st, km) ELSE st
    IN  IF ks # {} THEN MarkSafes(st1, ks) ELSE st1

\* Step 4: one sweep over the knowledge list, from sentence k on.
RECURSIVE DirectPass(_, _)
DirectPass(st, k) ==
    IF k > Len(st.knowledge) THEN st
    ELSE LET sentence == st.knowledge[k]
             km == known_mines(sentence)
             ks == known_safes(sentence)
             st1 == IF km # {} THEN MarkMines(st, km) ELSE st
             st2 == IF ks # {} THEN MarkSafes(st1, ks) ELSE st1
         IN  DirectPass(st2, k + 1)

\* Mutant: the difference is derived without the issubset test.
RECURSIVE SubsetPass_NoSubsetTest(_, _, _)
SubsetPass_NoSubsetTest(kn, nk, p) ==
    LET n == Len(kn) IN
    IF p >= n * n THEN nk
    ELSE LET sentence1 == kn[(p \div n) + 1]
             sentence2 == kn[(p % n) + 1]
             new_sentence == Sentence(sentence2.cells \ sentence1.cells,
                                      sentence2.count - sentence1.count)
         IN  IF /\ ~(sentence1.cells = sentence2.cells /\ sentence1.count = sentence2.count)
                /\ ~InList(new_sentence, kn)
                /\ ~InList(new_sentence, nk)
             THEN SubsetPass_NoSubsetTest(kn, Append(nk, new_sentence), p + 1)
             ELSE SubsetPass_NoSubsetTest(kn, nk, p + 1)

\* Mutant: a derived sentence is not compared with those already derived.
RECURSIVE SubsetPass_NoBatchDedup(_, _, _)
SubsetPass_NoBatchDedup(kn, nk, p) ==
    LET n == Len(kn) IN
    IF p >= n * n THEN nk
    ELSE LET sentence1 == kn[(p \div n) + 1]
             sentence2 == kn[(p % n) + 1]
             new_sentence == Sentence(sentence2.cells \ sentence1.cells,
                                      sentence2.count - sentence1.count)
         IN  IF /\ ~(sentence1.cells = sentence2.cells /\ sentence1.count = sentence2.count)
                /\ sentence1.cells \subseteq sentence2.cells
                /\ ~InList(new_sentence, kn)
             THEN SubsetPass_NoBatchDedup(kn, Append(nk, new_sentence), p + 1)
             ELSE SubsetPass_NoBatchDedup(kn, nk, p + 1)

\* Step 5: the pairs (sentence1, sentence2) of the knowledge list in loop
\* order, from pair p on (p = 0 is the pair (1, 1)); nk is new_knowledge.
RECURSIVE SubsetPass(_, _, _)
SubsetPass(kn, nk, p) ==
    LET n == Len(kn) IN
    IF p >= n * n THEN nk
    ELSE LET sentence1 == kn[(p \div n) + 1]
             sentence2 == kn[(p % n) + 1]
             new_sentence == Sentence(sentence2.cells \ sentence1.cells,
                                      sentence2.count - sentence1.count)
         IN  IF /\ ~(sentence1.cells = sentence2.cells /\ sentence1.count = sentence2.count)
                /\ sentence1.cells \subseteq sentence2.cells
                /\ ~InList(new_sentence, kn)
                /\ ~InList(new_sentence, nk)
             THEN SubsetPass(kn, Append(nk, new_sentence), p + 1)
             ELSE SubsetPass(kn, nk, p + 1)

\* for neighbor in sentence.cells.copy(): ... (S is what is left to visit)
RECURSIVE ResolveCells(_, _, _, _)
ResolveCells(st, sentence, S, cell) ==
    IF S = {} THEN st
    ELSE LET neighbor == First(S)
             st1 == IF /\ neighbor # cell
                       /\ neighbor \notin st.mines
                       /\ neighbor \notin st.safes
                    THEN IF sentence.count = 0
                         THEN mark_safe(st, neighbor)
                         ELSE IF sentence.count = Cardinality(sentence.cells)
                              THEN mark_mine(st, neighbor)
                              ELSE st
                    ELSE st
         IN  ResolveCells(st1, sentence, S \ {neighbor}, cell)

\* for sentence in new_knowledge: ... , from the k-th new sentence on.
RECURSIVE ResolvePass(_, _, _, _)
ResolvePass(st, nk, k, cell) ==
    IF k > Len(nk) THEN st
    ELSE ResolvePass(ResolveCells(st, nk[k], nk[k].cells, cell), nk, k + 1, cell)

add_knowledge(st, cell, count) ==
    LET st0 == Logged([st EXCEPT !.trace = <<>>])
        st3 == Observe(st0, cell, count)
        st4 == DirectPass(st3, 1)
        new_knowledge == SubsetPass(st4.knowledge, <<>>, 0)
        st6 == ResolvePass(st4, new_knowledge, 1, cell)
    IN  Logged([st6 EXCEPT !.knowledge = @ \o new_knowledge])

\* Mutant: the scan returns the first cell not yet played, safe or not.
RECURSIVE SafeScan_AnyUnplayed(_, _)
SafeScan_AnyUnplayed(st, k) ==
    IF k > Height * Width THEN None
    ELSE IF RowMajor(k) \notin st.moves_made
         THEN RowMajor(k)
         ELSE SafeScan_AnyUnplayed(st, k + 1)

\* The scan of make_safe_move from the k-th cell on.
RECURSIVE SafeScan(_, _)
SafeScan(st, k) ==
    IF k > Height * Width THEN None
    ELSE IF RowMajor(k) \notin st.moves_made /\ RowMajor(k) \in st.safes
         THEN RowMajor(k)
         ELSE SafeScan(st, k + 1)

make_safe_move(st) == SafeScan(st, 1)

\* Mutant: known mines are not left out of possible_moves.
possible_moves_WithMines(st) == {cell \in Cells : cell \notin st.moves_made}

\* Mutant: cells already played are not left out of possible_moves.
possible_moves_Replay(st) == {cell \in Cells : cell \notin st.mines}

\* possible_moves of make_random_move.
possible_moves(st) == {cell \in Cells : cell \notin st.moves_made /\ cell \notin st.mines}

(***************************************************************************)
(* The state machine                                                       *)
(***************************************************************************)
AI == [moves_made |-> moves_made, mines |-> mines, safes |-> safes,
       knowledge |-> knowledge, trace |-> trace]

\* The engine variables take the fields of st.
Becomes(st) ==
    /\ moves_made' = st.moves_made
    /\ mines' = st.mines
    /\ safes' = st.safes
    /\ knowledge' = st.knowledge
    /\ trace' = st.trace

Placements == {b \in SUBSET Cells : Cardinality(b) <= MaxMines}

Init ==
    /\ board \in Placements
    /\ moves_made = NewAI.moves_made
    /\ mines = NewAI.mines
    /\ safes = NewAI.safes
    /\ knowledge = NewAI.knowledge
    /\ trace = NewAI.trace
    /\ calls = 0
    /\ op = "init"
    /\ arg = None
    /\ ret = None
    /\ frame = None

\* The engine at the start of a call: the trace starts over.
Called == Logged([AI EXCEPT !.trace = <<>>])

\* The caller reveals a cell that is no mine and reports the board's count.
AddKnowledge ==
    \E cell \in Cells :
        /\ calls < MaxCalls
        /\ ~is_mine(cell)
        /\ LET st == add_knowledge(AI, cell, nearby_mines(cell)) IN Becomes(st)
        /\ calls' = calls + 1
        /\ op' = "add_knowledge"
        /\ arg' = cell
        /\ ret' = None
        /\ UNCHANGED <<board, frame>>

\* A caller that ignores the board: any cell, any count.
AddKnowledgeAny ==
    \E cell \in Cells, count \in 0..MaxCount :
        /\ calls < MaxApiCalls
        /\ LET st == add_knowledge(AI, cell, count) IN Becomes(st)
        /\ calls' = calls + 1
        /\ op' = "add_knowledge"
        /\ arg' = cell
        /\ ret' = None
        /\ UNCHANGED <<board, frame>>

\* The caller calls MinesweeperAI.mark_mine itself.
MarkMine ==
    \E cell \in Cells :
        /\ calls < MaxApiCalls
        /\ Becomes(mark_mine(Called, cell))
        /\ calls' = calls + 1
        /\ op' = "mark_mine"
        /\ arg' = cell
        /\ ret' = None
        /\ UNCHANGED <<board, frame>>

\* The caller calls MinesweeperAI.mark_safe itself.
MarkSafe ==
    \E cell \in Cells :
        /\ calls < MaxApiCalls
        /\ Becomes(mark_safe(Called, cell))
        /\ calls' = calls + 1
        /\ op' = "mark_safe"
        /\ arg' = cell
        /\ ret' = None
        /\ UNCHANGED <<board, frame>>

\* Mutant: make_safe_move records the cell it returns as a move made.
MakeSafeMove_RecordsMove ==
    /\ ret' = make_safe_move(AI)
    /\ op' = "make_safe_move"
    /\ arg' = None
    /\ moves_made' = IF make_safe_move(AI) = None THEN moves_made
                     ELSE moves_made \cup {make_safe_move(AI)}
    /\ UNCHANGED <<board, mines, safes, knowledge, trace, calls, frame>>

MakeSafeMove ==
    /\ ret' = make_safe_move(AI)
    /\ op' = "make_safe_move"
    /\ arg' = None
    /\ UNCHANGED <<board, moves_made, mines, safes, knowledge, trace, calls, frame>>

\* random.choice(possible_moves): any element of the list.
MakeRandomMove ==
    /\ IF possible_moves(AI) # {}
       THEN ret' \in possible_moves(AI)
       ELSE ret' = None
    /\ op' = "make_random_move"
    /\ arg' = None
    /\ UNCHANGED <<board, moves_made, mines, safes, knowledge, trace, calls, frame>>

\* The engine fed by the board: every count is nearby_mines of a safe cell.
Next == AddKnowledge \/ MakeSafeMove \/ MakeRandomMove

Spec == Init /\ [][Next]_vars

\* The engine under a caller that uses the whole interface freely.
InitAPI == Init /\ board = {}

NextAPI == AddKnowledgeAny \/ MarkMine \/ MarkSafe \/ MakeSafeMove \/ MakeRandomMove

SpecAPI == InitAPI /\ [][NextAPI]_vars

\* The game loop of a caller: the move is make_safe_move() if that is not
\* None, else make_random_move(); the loop ends when there is no move or the
\* move is a mine, else the cell is revealed and fed to add_knowledge.
GameMoves ==
    IF make_safe_move(AI) # None THEN {make_safe_move(AI)}
    ELSE IF possible_moves(AI) # {} THEN possible_moves(AI) ELSE {None}

Playing == op \notin {"lost", "over"}

GameReveal ==
    \E move \in GameMoves :
        /\ Playing
        /\ move # None
        /\ ~is_mine(move)
        /\ LET st == add_knowledge(AI, move, nearby_mines(move)) IN Becomes(st)
        /\ calls' = calls + 1
        /\ op' = "add_knowledge"
        /\ arg' = move
        /\ ret' = move
        /\ UNCHANGED <<board, frame>>

GameLost ==
    \E move \in GameMoves :
        /\ Playing
        /\ move # None
        /\ is_mine(move)
        /\ op' = "lost"
        /\ arg' = None
        /\ ret' = move
        /\ UNCHANGED <<board, moves_made, mines, safes, knowledge, trace, calls, frame>>

GameOver ==
    /\ Playing
    /\ GameMoves = {None}
    /\ op' = "over"
    /\ arg' = None
    /\ ret' = None
    /\ UNCHANGED <<board, moves_made, mines, safes, knowledge, trace, calls, frame>>

NextGame == GameReveal \/ GameLost \/ GameOver

\* The loop is sequential code: it takes its next round whenever there is one.
\* This is WF_vars(NextGame) written out, []<>~ENABLED <<NextGame>>_vars \/
\* []<><<NextGame>>_vars: a round is enabled exactly while Playing (one of
\* the three cases of GameMoves applies, and each changes op or calls).
SpecGame ==
    /\ Init
    /\ [][NextGame]_vars
    /\ ([]<>(~Playing) \/ []<><<NextGame>>_vars)

(***************************************************************************)
(* add_knowledge loop by loop.  frame holds the locals of the running     *)
(* call: pc is the loop the call is in, k the position of the loop        *)
(* `for sentence in ...`, i and j the positions of sentence1 and          *)
(* sentence2, new_knowledge the batch of derived sentences.  A Python     *)
(* for loop over a list ends when its position passes the length the list *)
(* has at that moment.                                                    *)
(***************************************************************************)
MaxRunCalls == 3

Running == op = "running"

\* Lines 219-226: the body of the sweep for the k-th sentence.
SweepBody(st, k) ==
    LET sentence == st.knowledge[k]
        km == known_mines(sentence)
        ks == known_safes(sentence)
        st1 == IF km # {} THEN MarkMines(st, km) ELSE st
    IN  IF ks # {} THEN MarkSafes(st1, ks) ELSE st1

\* Lines 232-238: the body of the subset pass for sentence1 = kn[i],
\* sentence2 = kn[j]; the value is new_knowledge after it.
SubsetBody(kn, nk, i, j) ==
    LET sentence1 == kn[i]
        sentence2 == kn[j]
        new_sentence == Sentence(sentence2.cells \ sentence1.cells,
                                 sentence2.count - sentence1.count)
    IN  IF /\ ~(sentence1.cells = sentence2.cells /\ sentence1.count = sentence2.count)
           /\ sentence1.cells \subseteq sentence2.cells
           /\ ~InList(new_sentence, kn)
           /\ ~InList(new_sentence, nk)
        THEN Append(nk, new_sentence)
        ELSE nk

\* Lines 199-215: the call starts and reaches the sweep.
RunCall ==
    \E cell \in Cells :
        /\ ~Running
        /\ calls < MaxRunCalls
        /\ ~is_mine(cell)
        /\ Becomes(Observe(Called, cell, nearby_mines(cell)))
        /\ frame' = [pc |-> "sweep", k |-> 1, i |-> 1, j |-> 1,
                     new_knowledge |-> <<>>]
        /\ op' = "running"
        /\ arg' = cell
        /\ ret' = None
        /\ UNCHANGED <<board, calls>>

\* Line 218: the next sentence of the sweep, or on to line 229.
RunSweep ==
    /\ Running
    /\ frame.pc = "sweep"
    /\ IF frame.k <= Len(knowledge)
       THEN /\ Becomes(SweepBody(AI, frame.k))
            /\ frame' = [frame EXCEPT !.k = @ + 1]
       ELSE /\ frame' = [frame EXCEPT !.pc = "subset", !.i = 1, !.j = 1,
                                      !.new_knowledge = <<>>]
            /\ UNCHANGED <<moves_made, mines, safes, knowledge, trace>>
    /\ UNCHANGED <<board, calls, op, arg, ret>>

\* Mutant: a derived sentence is appended to knowledge, the list scanned.
RunSubset_IntoKnowledge ==
    /\ Running
    /\ frame.pc = "subset"
    /\ IF frame.i > Len(knowledge)
       THEN /\ frame' = [frame EXCEPT !.pc = "resolve", !.k = 1]
            /\ UNCHANGED knowledge
       ELSE IF frame.j > Len(knowledge)
            THEN /\ frame' = [frame EXCEPT !.i = @ + 1, !.j = 1]
                 /\ UNCHANGED knowledge
            ELSE /\ frame' = [frame EXCEPT !.j = @ + 1]
                 /\ knowledge' = SubsetBody(knowledge, knowledge, frame.i, frame.j)
    /\ UNCHANGED <<board, moves_made, mines, safes, trace, calls, op, arg, ret>>

\* Lines 230-231: the next pair of the subset pass, or on to line 240.
RunSubset ==
    /\ Running
    /\ frame.pc = "subset"
    /\ IF frame.i > Len(knowledge)
       THEN frame' = [frame EXCEPT !.pc = "resolve", !.k = 1]
       ELSE IF frame.j > Len(knowledge)
            THEN frame' = [frame EXCEPT !.i = @ + 1, !.j = 1]
            ELSE frame' = [frame EXCEPT
                              !.j = @ + 1,
                              !.new_knowledge =
                                  SubsetBody(knowledge, @, frame.i, frame.j)]
    /\ UNCHANGED <<board, moves_made, mines, safes, knowledge, trace, calls,
                   op, arg, ret>>

\* Line 240: the next derived sentence, or line 248 and the return.
RunResolve ==
    /\ Running
    /\ frame.pc = "resolve"
    /\ IF frame.k <= Len(frame.new_knowledge)
       THEN /\ Becomes(ResolveCells(AI, frame.new_knowledge[frame.k],
                                    frame.new_knowledge[frame.k].cells, arg))
            /\ frame' = [frame EXCEPT !.k = @ + 1]
            /\ UNCHANGED <<calls, op>>
       ELSE /\ Becomes(Logged([AI EXCEPT !.knowledge = @ \o frame.new_knowledge]))
            /\ frame' = None
            /\ calls' = calls + 1
            /\ op' = "add_knowledge"
    /\ UNCHANGED <<board, arg, ret>>

RunStep == RunSweep \/ RunSubset \/ RunResolve

NextRun == RunCall \/ RunStep

\* The call is sequential code: once started it takes its steps.  This is
\* WF_vars(RunStep) written out: a step is enabled exactly while Running.
SpecRun ==
    /\ Init
    /\ [][NextRun]_vars
    /\ ([]<>(~Running) \/ []<><<RunStep>>_vars)

(***************************************************************************)
(* Properties                                                              *)
(***************************************************************************)
\* The sentences of a knowledge list.
Sentences(kn) == {kn[k] : k \in DOMAIN kn}

\* The sentence add_knowledge appended for the observation of the last call
\* (trace[1] is the call's start, trace[2] follows mark_safe(cell), trace[3]
\* follows the append).
Observed == trace[3].knowledge[Len(trace[3].knowledge)]

\* C1 (soundness): fed with the board's counts of cells that are no mines,
\* every cell in mines is a mine of the board and no cell in safes is one.
C1_Soundness == mines \subseteq board /\ safes \cap board = {}

C1_Witness == op = "add_knowledge" /\ mines # {} /\ safes \ moves_made # {}

\* C2: mines and safes are disjoint in every state the board-fed engine
\* reaches, the states inside an add_knowledge call included.
C2_Disjoint ==
    /\ mines \cap safes = {}
    /\ \A k \in DOMAIN trace : trace[k].mines \cap trace[k].safes = {}

C2_Witness ==
    /\ op = "add_knowledge"
    /\ \E k \in DOMAIN trace : trace[k].mines # {} /\ trace[k].safes # {} /\ k < Len(trace)

InRange(s) == 0 <= s.count /\ s.count <= Cardinality(s.cells)

\* C3: every sentence of the knowledge list has 0 <= count <= |cells|, when
\* it is appended and after every Sentence.mark_mine / Sentence.mark_safe.
C3_CountInRange ==
    /\ \A s \in Sentences(knowledge) : InRange(s)
    /\ \A k \in DOMAIN trace : \A s \in Sentences(trace[k].knowledge) : InRange(s)

\* A call in which Sentence.mark_mine took a cell out of a sentence and a
\* derived sentence was appended.
C3_Witness ==
    /\ op = "add_knowledge"
    /\ \E k \in 1..(Len(trace) - 1) : \E j \in DOMAIN trace[k].knowledge :
          trace[k + 1].knowledge[j].count < trace[k].knowledge[j].count
    /\ Len(knowledge) > calls

\* C4: make_safe_move never returns a cell of mines nor a mine of the board,
\* and the neighbours of an observation whose count is the number of its
\* candidate neighbours are in mines when add_knowledge has returned.
C4_SafeMoveNoMine ==
    /\ (op = "make_safe_move" /\ ret # None) => (ret \notin mines /\ ret \notin board)
    /\ (Len(trace) >= 3 /\ Observed.count = Cardinality(Observed.cells))
          => Observed.cells \subseteq mines

C4_Witness ==
    /\ op = "make_safe_move"
    /\ ret # None
    /\ Len(trace) >= 3
    /\ Observed.cells # {}
    /\ Observed.count = Cardinality(Observed.cells)

Before(c, d) == c[1] < d[1] \/ (c[1] = d[1] /\ c[2] < d[2])

SafeCandidates == {c \in Cells : c \in safes /\ c \notin moves_made}

\* C5: make_safe_move returns the first cell in row-major order that is in
\* safes and not in moves_made, and None exactly when there is no such cell.
C5_FirstSafe ==
    op = "make_safe_move" =>
        /\ (ret = None) <=> (SafeCandidates = {})
        /\ ret # None => /\ ret \in SafeCandidates
                         /\ \A d \in SafeCandidates \ {ret} : Before(ret, d)

C5_Witness ==
    /\ op = "make_safe_move"
    /\ ret # None
    /\ \E d \in SafeCandidates : d[1] > ret[1] /\ d[2] < ret[2]

RandomCandidates == {c \in Cells : c \notin moves_made /\ c \notin mines}

\* C6: make_random_move returns a cell of the board that is neither in
\* moves_made nor in mines, each such cell can be returned, and it returns
\* None exactly when there is no such cell.
C6_RandomMove ==
    /\ op = "make_random_move" =>
          /\ (ret = None) <=> (RandomCandidates = {})
          /\ ret # None => ret \in RandomCandidates
    /\ \A c \in RandomCandidates : ENABLED (MakeRandomMove /\ ret' = c)

C6_Witness ==
    /\ op = "make_random_move"
    /\ ret # None
    /\ mines # {}
    /\ Cardinality(RandomCandidates) >= 2

\* C7: a step of make_safe_move or make_random_move leaves moves_made,
\* mines, safes and the knowledge list as they are.
C7_QueriesPure ==
    [][op' \in {"make_safe_move", "make_random_move"}
          => UNCHANGED <<moves_made, mines, safes, knowledge>>]_vars

C7_Witness ==
    /\ op \in {"make_safe_move", "make_random_move"}
    /\ ret # None
    /\ mines # {}
    /\ \E s \in Sentences(knowledge) : s.cells # {}

Grows(a, b) ==
    /\ a.moves_made \subseteq b.moves_made
    /\ a.mines \subseteq b.mines
    /\ a.safes \subseteq b.safes
    /\ Len(a.knowledge) <= Len(b.knowledge)

\* C8 (monotonicity): no step of any operation, and no step inside a call,
\* takes a cell out of moves_made, mines or safes or shortens the knowledge
\* list.
C8_Monotone ==
    [][/\ Grows(Snapshot(AI), Snapshot(AI)')
       /\ \A k \in 1..(Len(trace') - 1) : Grows(trace'[k], trace'[k + 1])]_vars

C8_Witness ==
    /\ op = "add_knowledge"
    /\ Len(trace) >= 5
    /\ mines # {}
    /\ safes # {}
    /\ Len(knowledge) >= 2

\* C9 (idempotence): in every engine state and for every cell, mark_mine
\* twice leaves the engine as mark_mine once does, and so for mark_safe.
C9_Idempotent ==
    \A cell \in Cells :
        /\ Snapshot(mark_mine(mark_mine(AI, cell), cell)) = Snapshot(mark_mine(AI, cell))
        /\ Snapshot(mark_safe(mark_safe(AI, cell), cell)) = Snapshot(mark_safe(AI, cell))

\* The caller has marked a cell that a sentence of the knowledge list held.
C9_Witness ==
    /\ op \in {"mark_mine", "mark_safe"}
    /\ trace[1].knowledge # trace[2].knowledge

\* C10 (direct resolution): the cells of a sentence that has count 0 when
\* an add_knowledge call of the board-fed engine starts are in safes when it
\* returns, those of a sentence with count = |cells| are in mines.
C10_DirectResolution ==
    trace # <<>> =>
        \A s \in Sentences(trace[1].knowledge) :
            /\ s.count = 0 => s.cells \subseteq safes
            /\ s.count = Cardinality(s.cells) => s.cells \subseteq mines

\* A call that started with a sentence forcing cells not yet marked.
C10_Witness ==
    /\ op = "add_knowledge"
    /\ \E s \in Sentences(trace[1].knowledge) :
          \/ s.count = 0 /\ ~(s.cells \subseteq trace[1].safes)
          \/ s.count = Cardinality(s.cells) /\ ~(s.cells \subseteq trace[1].mines)

\* The engine as it was when the last add_knowledge call of the board-fed
\* engine started, and the knowledge list that call's subset pass scanned.
CallStart == [moves_made |-> trace[1].moves_made, mines |-> trace[1].mines,
              safes |-> trace[1].safes, knowledge |-> trace[1].knowledge,
              trace |-> <<>>]

AtSubsetPass == DirectPass(Observe(CallStart, arg, nearby_mines(arg)), 1).knowledge

\* C11 (subset resolution): if the subset pass finds two constraints S1, S2
\* at different places of knowledge with S1.cells a subset of S2.cells and
\* S2.count - S1.count = |S2.cells \ S1.cells| > 0, the cells of
\* S2.cells \ S1.cells other than the observed cell are in mines when
\* add_knowledge returns; with S2.count - S1.count = 0 they are in safes.
C11_SubsetResolution ==
    op = "add_knowledge" =>
        \A i, j \in DOMAIN AtSubsetPass :
            LET S1 == AtSubsetPass[i]
                S2 == AtSubsetPass[j]
                D == S2.cells \ S1.cells
            IN  (i # j /\ S1.cells \subseteq S2.cells /\ D # {}) =>
                    /\ S2.count - S1.count = Cardinality(D) => (D \ {arg}) \subseteq mines
                    /\ S2.count - S1.count = 0 => (D \ {arg}) \subseteq safes

\* C12 (net effect): when add_knowledge returns, every cell of a constraint
\* of knowledge with count 0 is in safes and every cell of a constraint with
\* count = |cells| is in mines.
C12_NetEffect ==
    op = "add_knowledge" =>
        \A s \in Sentences(knowledge) :
            /\ s.count = 0 => s.cells \subseteq safes
            /\ s.count = Cardinality(s.cells) => s.cells \subseteq mines

\* C13: when add_knowledge(cell, count) returns, cell is in moves_made and
\* in safes and in no constraint that was in knowledge when the call started.
C13_CellRecorded ==
    op = "add_knowledge" =>
        /\ arg \in moves_made
        /\ arg \in safes
        /\ \A k \in DOMAIN trace[1].knowledge : arg \notin knowledge[k].cells

\* The observed cell was in a constraint when the call started.
C13_Witness ==
    /\ op = "add_knowledge"
    /\ \E k \in DOMAIN trace[1].knowledge : arg \in trace[1].knowledge[k].cells

\* C14: fed with the board's counts, every sentence of knowledge is true of
\* the board: exactly count of its cells are mines (in every state, the
\* states inside an add_knowledge call included).
TrueOfBoard(s) == Cardinality(s.cells \cap board) = s.count

C14_SentencesTrue ==
    /\ \A s \in Sentences(knowledge) : TrueOfBoard(s)
    /\ \A k \in DOMAIN trace : \A s \in Sentences(trace[k].knowledge) : TrueOfBoard(s)

\* The observed sentence kept a neighbour already in mines, and a derived
\* sentence was appended.
C14_Witness ==
    /\ op = "add_knowledge"
    /\ Observed.cells \cap trace[2].mines # {}
    /\ Len(knowledge) > Len(trace[3].knowledge)

\* C15: the constraint appended for add_knowledge(cell, count) has as cells
\* the cells of the board within Chebyshev distance 1 of cell, other than
\* cell, that are not in safes at that moment, and has the count given.
Abs(x) == IF x < 0 THEN -x ELSE x

C15_ObservedSentence ==
    op = "add_knowledge" =>
        /\ Observed.cells = {n \in Cells : /\ n # arg
                                           /\ Abs(n[1] - arg[1]) <= 1
                                           /\ Abs(n[2] - arg[2]) <= 1
                                           /\ n \notin trace[2].safes}
        /\ Observed.count = nearby_mines(arg)

\* Some neighbour was left out as safe and some neighbour in mines was kept.
C15_Witness ==
    /\ op = "add_knowledge"
    /\ \E n \in Cells \ {arg} : /\ Abs(n[1] - arg[1]) <= 1
                                /\ Abs(n[2] - arg[2]) <= 1
                                /\ n \in trace[2].safes
    /\ Observed.cells \cap trace[2].mines # {}
    /\ Cells \ (Observed.cells \cup trace[2].safes) # {}

\* C16 (as claimed): knowledge never holds two entries with the same cells
\* and the same count.
C16_NoDuplicates ==
    \A i, j \in DOMAIN knowledge :
        i # j => ~(knowledge[i].cells = knowledge[j].cells
                   /\ knowledge[i].count = knowledge[j].count)

\* C16 (amended): a constraint derived by the subset pass is appended only
\* if it differs from every constraint the pass scanned and from every other
\* constraint derived in the same call.
C16_DerivedAreNew ==
    op = "add_knowledge" =>
        LET n == Len(AtSubsetPass) IN
        \A k \in (n + 1)..Len(knowledge) :
            /\ ~InList(knowledge[k], AtSubsetPass)
            /\ \A l \in (n + 1)..Len(knowledge) :
                  l # k => ~(knowledge[l].cells = knowledge[k].cells
                             /\ knowledge[l].count = knowledge[k].count)

\* A call that appended two derived constraints to a knowledge list that
\* holds two equal entries.
C16_Witness ==
    /\ op = "add_knowledge"
    /\ Len(knowledge) >= Len(trace[3].knowledge) + 2
    /\ ~C16_NoDuplicates

\* C17: when add_knowledge returns, no constraint of knowledge holds a cell
\* that is in mines or in safes.
C17_Propagated ==
    op = "add_knowledge" =>
        \A s \in Sentences(knowledge) : s.cells \cap (mines \cup safes) = {}

\* The fairness of SpecRun is weak fairness of RunStep: a step of the
\* running call can be taken exactly while the call is running.
RunStepEnabled == Running <=> ENABLED <<RunStep>>_vars

\* The number of sentences of knowledge when the running call started
\* its loops (the observed sentence included).
Scanned == Len(trace[3].knowledge)

\* C18 (termination): a call of add_knowledge that has started returns.
\* While it runs, the list the sweep and the subset pass scan keeps its
\* length, the loop positions stay within one past the end of their lists
\* and new_knowledge holds at most one sentence per pair of different
\* positions; at the return knowledge has grown by the observed sentence
\* and at most that many derived ones, and the call leaves the engine as
\* add_knowledge computes it.
C18_Terminates ==
    /\ [](Running =>
            /\ Len(knowledge) = Scanned
            /\ frame.k <= Max(Scanned, Len(frame.new_knowledge)) + 1
            /\ frame.i <= Scanned + 1
            /\ frame.j <= Scanned + 1
            /\ Len(frame.new_knowledge) <= Scanned * (Scanned - 1))
    /\ [](op = "add_knowledge" =>
            /\ Len(knowledge) <= Scanned + Scanned * (Scanned - 1)
            /\ Scanned = Len(trace[1].knowledge) + 1
            /\ AI = add_knowledge(CallStart, arg, nearby_mines(arg)))
    /\ (Running ~> ~Running)

\* A call that returned after all three loops did work: the sweep and the
\* resolution marked cells and the subset pass derived two sentences.
C18_Witness ==
    /\ op = "add_knowledge"
    /\ calls >= 2
    /\ Len(knowledge) >= Scanned + 2
    /\ Len(trace) >= 6
    /\ mines # {}

\* C19: in the game loop the chosen cell is never already in moves_made,
\* each round adds exactly the chosen cell to moves_made, there are at most
\* Height * Width rounds, and the loop stops (a mine is hit or there is no
\* move).
C19_GameEnds ==
    /\ [](/\ op = "add_knowledge" => /\ arg \notin trace[1].moves_made
                                    /\ moves_made = trace[1].moves_made \cup {arg}
                                    /\ Cardinality(moves_made) = calls
          /\ op = "lost" => ret \notin moves_made
          /\ calls <= Height * Width)
    /\ <>(~Playing)

\* A game played to the end around mines: every cell that is no mine was
\* revealed, some of them by make_random_move.
C19_Witness ==
    /\ op = "over"
    /\ board # {}
    /\ moves_made = Cells \ board
    /\ calls >= 3

====
